---- MODULE Spec2Model ----
(***************************************************************************)
(* The proxy contract of learn-cosmwasm-multi-contract: its entry points   *)
(* (instantiate, execute, reply), the five execute handlers of             *)
(* contract/exec.rs, and the host's dispatch of the messages a handler     *)
(* returns (a failed message aborts and rolls back the whole transaction;  *)
(* a reply_on_success sub-message that succeeds invokes reply).            *)
(***************************************************************************)
EXTENDS Integers, Sequences, FiniteSets, TLC

----------------------------------------------------------------------------
(* Bounds of the model *)

\* width of the scaled-down u64 / i64 (the program's is 64)
IntBits == 5
\* Donate is not offered once the counter has reached this value
MaxDonations == 2
\* block times are 0..MaxTime
MaxTime == 1
\* the halftime given at instantiation is 0..MaxHalftime
MaxHalftime == 1

----------------------------------------------------------------------------
(* Program constants *)

WITHDRAW_REPLY_ID == 1
PROPOSE_MEMBER_REPLY_ID == 2

----------------------------------------------------------------------------
(* Values *)

Pow2(n) == 2 ^ n
U64Modulus == Pow2(IntBits)
U64Max == U64Modulus - 1
I64Max == Pow2(IntBits - 1) - 1
I64Min == -Pow2(IntBits - 1)

\* addresses that pass addr_validate, and one string that does not
Addrs == {"alice", "bob"}
BadAddr == "BAD!"
DistributionAddr == "distribution"
MembershipAddr == "membership"
Denom == "X"

\* weights an InstantiateMsg may carry: small ones, and from the upper half of the
\* unsigned range its least and its two greatest
InitWeights == {0, 10, I64Max + 1, U64Max - 1, U64Max}
\* direct_part as a percentage (Decimal::percent)
DirectParts == {30, 100, 150}
\* funds a Donate may carry: each a sequence of coins
Amounts == {0, 7, 1000}
Funds == {<<>>, <<[denom |-> "Y", amount |-> 7]>>}
             \cup { <<[denom |-> Denom, amount |-> a]>> : a \in Amounts }

\* Option<T> as a sequence of length 0 or 1
None == <<>>
Some(x) == <<x>>

VARIABLES
    pc,              \* "new" | "rejected" | "idle" | "submsg"
    storage,         \* the contract's committed-or-in-transaction storage
    checkpoint,      \* the storage at the start of the running transaction
    queue,           \* messages of the running transaction the host has yet to dispatch
    resp,            \* what the step just taken was and what it returned
    now,             \* block time of the latest request
    overflow_checks, \* whether the build panics on integer overflow (else it wraps)
    tx,              \* history: the request that began the latest transaction
    paid             \* history: bank transfers executed in the latest transaction

vars == <<pc, storage, checkpoint, queue, resp, now, overflow_checks, tx, paid>>

----------------------------------------------------------------------------
(* Integer arithmetic at the program's width *)

\* `x as i64` of a u64
AsI64(u) == IF u > I64Max THEN u - U64Modulus ELSE u
\* `x as u64` of an i64
AsU64(i) == i % U64Modulus
InI64(i) == I64Min <= i /\ i <= I64Max
InU64(i) == 0 <= i /\ i <= U64Max
WrapI64(i) == AsI64(i % U64Modulus)
\* Rust's `/` on integers truncates toward zero
TruncDiv(a, b) == IF a >= 0 THEN a \div b ELSE -((-a) \div b)
\* Uint128 * Decimal: the product rounded down (direct_part held as a percentage)
MulDecimal(amount, percent) == (amount * percent) \div 100

----------------------------------------------------------------------------
(* Messages and results *)

Ok == "Ok"
Panic == "Panic"

\* WasmMsg::Execute to the distribution contract, DistribtionExecMsg::Distribute {}
DistributeMsg(to, funds) ==
    [to |-> to, msg |-> "Distribute", funds |-> funds, reply_on |-> "never", id |-> 0]
\* WasmMsg::Execute to the distribution contract, DistribtionExecMsg::Withdraw { weight, diff }
WithdrawMsg(to, weight, diff, reply_on, id) ==
    [to |-> to, msg |-> "Withdraw", weight |-> weight, diff |-> diff,
     funds |-> 0, reply_on |-> reply_on, id |-> id]
\* WasmMsg::Execute to the membership contract, MembershipExecMsg::ProposeMember { addr }
ProposeMemberMsg(to, addr, reply_on, id) ==
    [to |-> to, msg |-> "ProposeMember", addr |-> addr,
     funds |-> 0, reply_on |-> reply_on, id |-> id]
\* BankMsg::Send of the withdrawal continuation
BankSendMsg(to, amount) ==
    [to |-> to, msg |-> "BankSend", amount |-> amount, funds |-> 0,
     reply_on |-> "never", id |-> 0]

Return(result, st, msgs, attrs) ==
    [result |-> result, storage |-> st, msgs |-> msgs, attrs |-> attrs]
Err(e, st) == Return(e, st, <<>>, [action |-> "none"])

\* deps.api.addr_validate
addr_validate(a) == a \in Addrs \cup {DistributionAddr, MembershipAddr}

\* cw_utils::must_pay: exactly one coin, of the denomination, of a non-zero amount
must_pay(funds, denom) ==
    IF Len(funds) = 0 THEN [err |-> "NoFunds", amount |-> 0]
    ELSE IF Len(funds) > 1 THEN [err |-> "MultipleDenoms", amount |-> 0]
    ELSE IF funds[1].amount = 0 THEN [err |-> "NoFunds", amount |-> 0]
    ELSE IF funds[1].denom # denom THEN [err |-> "MissingDenom", amount |-> 0]
    ELSE [err |-> Ok, amount |-> funds[1].amount]

----------------------------------------------------------------------------
(* contract.rs: instantiate *)

\* the storage of a contract that has not been instantiated; never read
BlankStorage ==
    [owner |-> "", weight |-> 0, donations |-> 0,
     config |-> [denom |-> "", direct_part |-> 0, distribution_contract |-> "",
                 membership_contract |-> "", is_closed |-> FALSE],
     halftime |-> 0, last_updated |-> 0, pending |-> None]

InstantiateMsgs ==
    [owner : {"alice", BadAddr}, weight : InitWeights, direct_part : DirectParts,
     halftime : 0..MaxHalftime, denom : {Denom},
     distribution_contract : {DistributionAddr}, membership_contract : {MembershipAddr}]

instantiate_AnyDirectPart(st, time, msg) ==
    IF ~addr_validate(msg.owner) \/ ~addr_validate(msg.distribution_contract)
       \/ ~addr_validate(msg.membership_contract)
    THEN Err("InvalidAddress", st)
    ELSE Return(Ok,
                [owner |-> msg.owner, weight |-> msg.weight, donations |-> 0,
                 config |-> [denom |-> msg.denom, direct_part |-> msg.direct_part,
                             distribution_contract |-> msg.distribution_contract,
                             membership_contract |-> msg.membership_contract,
                             is_closed |-> FALSE],
                 halftime |-> msg.halftime, last_updated |-> time, pending |-> None],
                <<>>, [action |-> "instantiate"])
instantiate(st, time, msg) ==
    IF ~(0 <= msg.direct_part /\ msg.direct_part <= 100)
    THEN Err("InalidDirectPart", st)
    ELSE IF ~addr_validate(msg.owner) \/ ~addr_validate(msg.distribution_contract)
            \/ ~addr_validate(msg.membership_contract)
    THEN Err("InvalidAddress", st)
    ELSE Return(Ok,
                [owner |-> msg.owner, weight |-> msg.weight, donations |-> 0,
                 config |-> [denom |-> msg.denom, direct_part |-> msg.direct_part,
                             distribution_contract |-> msg.distribution_contract,
                             membership_contract |-> msg.membership_contract,
                             is_closed |-> FALSE],
                 halftime |-> msg.halftime, last_updated |-> time, pending |-> None],
                <<>>, [action |-> "instantiate"])

----------------------------------------------------------------------------
(* contract/exec.rs: the execute handlers.  Each returns its result, the     *)
(* storage as the handler left it when it returned (the host keeps it only   *)
(* when the result is Ok), its messages and its attributes.                  *)

\* ensure!(owner == info.sender, ContractError::Unauthorized)
ensure_owner_Skipped(st, sender) == TRUE
ensure_owner(st, sender) == st.owner = sender

donate_ForwardsDirectPart(st, sender, funds) ==
    LET config == st.config
        pay == must_pay(funds, config.denom)
        amount == pay.amount
        direct_amount == MulDecimal(amount, config.direct_part)
        distribution_msg == DistributeMsg(config.distribution_contract, direct_amount)
    IN  IF pay.err # Ok THEN Err("PaymentError", st)
        ELSE Return(Ok, [st EXCEPT !.donations = AsU64(st.donations + 1)],
                    <<distribution_msg>>,
                    [action |-> "donate", sender |-> sender, amount |-> amount])
donate(st, sender, funds) ==
    LET config == st.config
        pay == must_pay(funds, config.denom)
        amount == pay.amount
        direct_amount == MulDecimal(amount, config.direct_part)
        to_distribute == amount - direct_amount
        distribution_msg == DistributeMsg(config.distribution_contract, to_distribute)
        donations == st.donations + 1
    IN  IF pay.err # Ok THEN Err("PaymentError", st)
        ELSE IF to_distribute < 0 THEN Err(Panic, st)
        ELSE IF ~InU64(donations) /\ overflow_checks THEN Err(Panic, st)
        ELSE Return(Ok, [st EXCEPT !.donations = AsU64(donations)],
                    <<distribution_msg>>,
                    [action |-> "donate", sender |-> sender, amount |-> amount])

withdraw_ResetsClock(st, sender, time, receiver, amount) ==
    LET rcv == IF receiver = None THEN sender ELSE receiver[1]
        st1 == [st EXCEPT !.weight = st.donations, !.donations = 1, !.last_updated = 0]
        st2 == [st1 EXCEPT !.pending = Some([receiver |-> rcv, amount |-> amount])]
    IN  IF ~ensure_owner(st, sender) THEN Err("Unauthorized", st)
        ELSE IF receiver # None /\ ~addr_validate(receiver[1]) THEN Err("InvalidAddress", st1)
        ELSE Return(Ok, st2,
                    <<WithdrawMsg(st.config.distribution_contract, st.weight,
                                  WrapI64(AsI64(st.donations) - AsI64(st.weight)),
                                  "success", WITHDRAW_REPLY_ID)>>,
                    [action |-> "withdraw", sender |-> sender, new_weight |-> st.weight])
withdraw_PaysAtOnce(st, sender, time, receiver, amount) ==
    LET rcv == IF receiver = None THEN sender ELSE receiver[1]
        st1 == [st EXCEPT !.weight = st.donations, !.donations = 1, !.last_updated = time]
    IN  IF ~ensure_owner(st, sender) THEN Err("Unauthorized", st)
        ELSE IF receiver # None /\ ~addr_validate(receiver[1]) THEN Err("InvalidAddress", st1)
        ELSE Return(Ok, st1, <<BankSendMsg(rcv, amount)>>,
                    [action |-> "withdraw", sender |-> sender, new_weight |-> st.weight])
withdraw(st, sender, time, receiver, amount) ==
    LET weight == st.weight
        donations == st.donations
        diff == AsI64(donations) - AsI64(weight)
        st1 == [st EXCEPT !.weight = donations, !.donations = 1, !.last_updated = time]
        rcv == IF receiver = None THEN sender ELSE receiver[1]
        st2 == [st1 EXCEPT !.pending = Some([receiver |-> rcv, amount |-> amount])]
        config == st2.config
        withdraw_msg == WithdrawMsg(config.distribution_contract, weight, WrapI64(diff),
                                    "success", WITHDRAW_REPLY_ID)
    IN  IF ~ensure_owner(st, sender) THEN Err("Unauthorized", st)
        ELSE IF ~InI64(diff) /\ overflow_checks THEN Err(Panic, st)
        ELSE IF receiver # None /\ ~addr_validate(receiver[1]) THEN Err("InvalidAddress", st1)
        ELSE Return(Ok, st2, <<withdraw_msg>>,
                    [action |-> "withdraw", sender |-> sender, new_weight |-> weight])

close_Toggles(st, sender) ==
    IF ~ensure_owner(st, sender) THEN Err("Unauthorized", st)
    ELSE Return(Ok, [st EXCEPT !.config.is_closed = ~st.config.is_closed], <<>>,
                [action |-> "close"])
close(st, sender) ==
    IF ~ensure_owner(st, sender) THEN Err("Unauthorized", st)
    ELSE Return(Ok, [st EXCEPT !.config.is_closed = TRUE], <<>>, [action |-> "close"])

propose_member_WrongReplyId(st, sender, addr) ==
    IF ~ensure_owner(st, sender) THEN Err("Unauthorized", st)
    ELSE Return(Ok, st,
                <<ProposeMemberMsg(st.config.membership_contract, addr,
                                   "success", WITHDRAW_REPLY_ID)>>,
                [action |-> "propose member", sender |-> sender, new_member |-> addr])
propose_member_StagesPending(st, sender, addr) ==
    IF ~ensure_owner(st, sender) THEN Err("Unauthorized", st)
    ELSE Return(Ok, [st EXCEPT !.pending = Some([receiver |-> addr, amount |-> None])],
                <<ProposeMemberMsg(st.config.membership_contract, addr,
                                   "success", PROPOSE_MEMBER_REPLY_ID)>>,
                [action |-> "propose member", sender |-> sender, new_member |-> addr])
propose_member_Unguarded(st, sender, addr) ==
    Return(Ok, st,
           <<ProposeMemberMsg(st.config.membership_contract, addr,
                              "success", PROPOSE_MEMBER_REPLY_ID)>>,
           [action |-> "propose member", sender |-> sender, new_member |-> addr])
propose_member(st, sender, addr) ==
    LET config == st.config
        propose_member_msg == ProposeMemberMsg(config.membership_contract, addr,
                                               "success", PROPOSE_MEMBER_REPLY_ID)
    IN  IF ~ensure_owner(st, sender) THEN Err("Unauthorized", st)
        ELSE Return(Ok, st, <<propose_member_msg>>,
                    [action |-> "propose member", sender |-> sender, new_member |-> addr])

update_weight_Ungated(st, time, sender) ==
    LET diff == -(st.weight \div 2)
        new_weight == st.weight + diff
    IN  Return(Ok, [st EXCEPT !.weight = new_weight],
               <<WithdrawMsg(st.config.distribution_contract, st.weight, diff, "never", 0)>>,
               [action |-> "update_weight", sender |-> sender, performed |-> "yes",
                new_weight |-> new_weight])
update_weight(st, time, sender) ==
    LET last_updated == st.last_updated
        halftime == st.halftime
        elapsed == time - last_updated
        elapsed_time == AsU64(elapsed)
        config == st.config
        weight == st.weight
        neg == -AsI64(weight)
        diff == TruncDiv(WrapI64(neg), 2)
        sum == AsI64(weight) + diff
        withdraw_msg == WithdrawMsg(config.distribution_contract, weight, diff, "never", 0)
        new_weight == AsU64(WrapI64(sum))
    IN  IF ~InU64(elapsed) /\ overflow_checks THEN Err(Panic, st)
        ELSE IF halftime > elapsed_time
        THEN Return(Ok, st, <<>>,
                    [action |-> "update_weight", sender |-> sender, performed |-> "no"])
        ELSE IF (~InI64(neg) \/ ~InI64(sum)) /\ overflow_checks THEN Err(Panic, st)
        ELSE Return(Ok, [st EXCEPT !.weight = new_weight], <<withdraw_msg>>,
                    [action |-> "update_weight", sender |-> sender, performed |-> "yes",
                     new_weight |-> new_weight])

----------------------------------------------------------------------------
(* contract.rs: reply, and the two continuations of contract/reply.rs *)

\* reply::withdraw: pay the staged receiver and delete the staged record
reply_withdraw(st) ==
    IF st.pending = None THEN Err("MissingPendingState", st)
    ELSE LET data == st.pending[1]
         IN  Return(Ok, [st EXCEPT !.pending = None],
                    <<BankSendMsg(data.receiver, data.amount)>>,
                    [action |-> "withdraw reply"])

\* reply::propose_member: only inspects the sub-call's result
reply_propose_member(result) ==
    IF result # Ok THEN [result |-> "DownstreamFailure", msgs |-> <<>>,
                         attrs |-> [action |-> "none"]]
    ELSE [result |-> Ok, msgs |-> <<>>, attrs |-> [action |-> "propose member reply"]]

reply_DefaultsToProposal(st, id, result) ==
    LET r == reply_propose_member(result)
    IN  IF id = WITHDRAW_REPLY_ID THEN reply_withdraw(st)
        ELSE Return(r.result, st, r.msgs, r.attrs)
reply_Misrouted(st, id, result) ==
    LET r == reply_propose_member(result)
    IN  IF id = WITHDRAW_REPLY_ID \/ id = PROPOSE_MEMBER_REPLY_ID
        THEN Return(r.result, st, r.msgs, r.attrs)
        ELSE Return("UnrecognizedReplyId", st, <<>>, [action |-> "none", id |-> id])
reply(st, id, result) ==
    IF id = WITHDRAW_REPLY_ID THEN reply_withdraw(st)
    ELSE IF id = PROPOSE_MEMBER_REPLY_ID
    THEN LET r == reply_propose_member(result)
         IN  Return(r.result, st, r.msgs, r.attrs)
    ELSE Return("UnrecognizedReplyId", st, <<>>, [action |-> "none", id |-> id])

----------------------------------------------------------------------------
(* contract.rs: execute *)

DonateMsgs == [op : {"Donate"}, funds : Funds]
WithdrawMsgs == { [op |-> "Withdraw", receiver |-> None, amount |-> None],
                  [op |-> "Withdraw", receiver |-> Some("bob"), amount |-> Some(1)],
                  [op |-> "Withdraw", receiver |-> Some(BadAddr), amount |-> None] }
CloseMsgs == [op : {"Close"}]
ProposeMemberMsgs == [op : {"ProposeMember"}, addr : {"bob"}]
UpdateWeightMsgs == [op : {"UpdateWeight"}]

execute(st, time, sender, msg) ==
    CASE msg.op = "Donate" -> donate(st, sender, msg.funds)
      [] msg.op = "Withdraw" -> withdraw(st, sender, time, msg.receiver, msg.amount)
      [] msg.op = "Close" -> close(st, sender)
      [] msg.op = "ProposeMember" -> propose_member(st, sender, msg.addr)
      [] msg.op = "UpdateWeight" -> update_weight(st, time, sender)

----------------------------------------------------------------------------
(* The host: it calls an entry point, keeps the storage the call wrote only  *)
(* when the call returned Ok, and then dispatches the returned messages.     *)

Resp(call, r) == [call |-> call, result |-> r.result, msgs |-> r.msgs, attrs |-> r.attrs]

\* block times a request arriving after time `now` may carry
Times == { t \in {now, now + 1} : t <= MaxTime }

Kept_Dirty(r) == r.storage
\* the storage the host keeps after an entry point returned r
Kept(r) == IF r.result = Ok THEN r.storage ELSE storage

Init ==
    /\ pc = "new"
    /\ storage = BlankStorage
    /\ checkpoint = BlankStorage
    /\ queue = <<>>
    /\ resp = [call |-> [entry |-> "none"], result |-> Ok, msgs |-> <<>>,
               attrs |-> [action |-> "none"]]
    /\ now = 0
    /\ overflow_checks \in BOOLEAN
    /\ tx = [op |-> "none", sender |-> ""]
    /\ paid = 0

Instantiate ==
    /\ pc = "new"
    /\ \E time \in Times, msg \in InstantiateMsgs :
          LET r == instantiate(storage, time, msg)
          IN  /\ resp' = Resp([entry |-> "instantiate", msg |-> msg], r)
              /\ storage' = Kept(r)
              /\ checkpoint' = Kept(r)
              /\ pc' = IF r.result = Ok THEN "idle" ELSE "rejected"
              /\ now' = time
    /\ UNCHANGED <<queue, overflow_checks, tx, paid>>

\* one execute request: the transaction starts from the committed storage
Execute(time, sender, msg) ==
    LET r == execute(storage, time, sender, msg)
    IN  /\ pc = "idle"
        /\ resp' = Resp([entry |-> "execute", sender |-> sender, msg |-> msg], r)
        /\ storage' = Kept(r)
        /\ queue' = IF r.result = Ok THEN r.msgs ELSE <<>>
        /\ pc' = IF queue' = <<>> THEN "idle" ELSE "submsg"
        /\ checkpoint' = IF queue' = <<>> THEN storage' ELSE storage
        /\ now' = time
        /\ tx' = [op |-> msg.op, sender |-> sender]
        /\ paid' = 0
        /\ UNCHANGED overflow_checks

Donate ==
    /\ storage.donations < MaxDonations
    /\ \E time \in Times, sender \in Addrs, msg \in DonateMsgs : Execute(time, sender, msg)

Withdraw ==
    \E time \in Times, sender \in Addrs, msg \in WithdrawMsgs : Execute(time, sender, msg)

Close ==
    \E time \in Times, sender \in Addrs, msg \in CloseMsgs : Execute(time, sender, msg)

ProposeMember ==
    \E time \in Times, sender \in Addrs, msg \in ProposeMemberMsgs : Execute(time, sender, msg)

UpdateWeight ==
    \E time \in Times, sender \in Addrs, msg \in UpdateWeightMsgs : Execute(time, sender, msg)

\* the host's handling of what reply returned, inside the running transaction
\* (direct = FALSE) or called on its own (direct = TRUE)
Replied(id, result, direct, rest) ==
    LET r == reply(storage, id, result)
    IN  /\ resp' = Resp([entry |-> "reply", id |-> id, result |-> result,
                         direct |-> direct], r)
        /\ queue' = IF r.result = Ok THEN r.msgs \o rest ELSE <<>>
        /\ pc' = IF queue' = <<>> THEN "idle" ELSE "submsg"
        /\ storage' = IF r.result = Ok THEN r.storage ELSE checkpoint
        /\ checkpoint' = IF queue' = <<>> THEN storage' ELSE checkpoint
        /\ tx' = IF direct THEN [op |-> "reply", sender |-> ""] ELSE tx
        /\ paid' = IF direct THEN 0 ELSE paid
        /\ UNCHANGED <<now, overflow_checks>>

\* a reply_on_success sub-message succeeded: the host calls reply
SubMsgReply ==
    /\ pc = "submsg"
    /\ Head(queue).reply_on = "success"
    /\ Replied(Head(queue).id, Ok, FALSE, Tail(queue))

\* a message with no reply registered succeeded
MsgSucceeds ==
    /\ pc = "submsg"
    /\ Head(queue).reply_on = "never"
    /\ resp' = [call |-> [entry |-> "host", msg |-> Head(queue)], result |-> Ok,
                msgs |-> <<>>, attrs |-> [action |-> "none"]]
    /\ queue' = Tail(queue)
    /\ pc' = IF queue' = <<>> THEN "idle" ELSE "submsg"
    /\ checkpoint' = IF queue' = <<>> THEN storage ELSE checkpoint
    /\ paid' = IF Head(queue).msg = "BankSend" THEN paid + 1 ELSE paid
    /\ UNCHANGED <<storage, now, overflow_checks, tx>>

MsgFails_KeepsWrites ==
    /\ pc = "submsg"
    /\ resp' = [call |-> [entry |-> "host", msg |-> Head(queue)],
                result |-> "DownstreamFailure", msgs |-> <<>>,
                attrs |-> [action |-> "none"]]
    /\ storage' = storage
    /\ checkpoint' = storage
    /\ queue' = <<>>
    /\ pc' = "idle"
    /\ UNCHANGED <<now, overflow_checks, tx, paid>>
\* a message or sub-message failed: with no reply_on_error registered anywhere
\* the error aborts the transaction and the host discards all its writes
MsgFails ==
    /\ pc = "submsg"
    /\ resp' = [call |-> [entry |-> "host", msg |-> Head(queue)],
                result |-> "DownstreamFailure", msgs |-> <<>>,
                attrs |-> [action |-> "none"]]
    /\ storage' = checkpoint
    /\ checkpoint' = checkpoint
    /\ queue' = <<>>
    /\ pc' = "idle"
    /\ UNCHANGED <<now, overflow_checks, tx, paid>>

\* the reply entry point called with no sub-message of the contract behind it
\* (a replayed or a foreign reply)
Replies == { [id |-> WITHDRAW_REPLY_ID, result |-> Ok],
             [id |-> PROPOSE_MEMBER_REPLY_ID, result |-> Ok],
             [id |-> PROPOSE_MEMBER_REPLY_ID, result |-> "Err"],
             [id |-> 3, result |-> Ok] }
ReplyDirect ==
    /\ pc = "idle"
    /\ \E r \in Replies : Replied(r.id, r.result, TRUE, <<>>)

Next ==
    \/ Instantiate
    \/ Donate
    \/ Withdraw
    \/ Close
    \/ ProposeMember
    \/ UpdateWeight
    \/ SubMsgReply
    \/ MsgSucceeds
    \/ MsgFails
    \/ ReplyDirect

Spec == Init /\ [][Next]_vars

----------------------------------------------------------------------------
(* Steps, as the properties below name them.  Every step sets resp, so the   *)
(* step just taken is read off resp' together with the pc it started from.   *)

ExecStep(op) ==
    pc = "idle" /\ resp'.call.entry = "execute" /\ resp'.call.msg.op = op
ReplyStep(id) ==
    pc \in {"idle", "submsg"} /\ resp'.call.entry = "reply" /\ resp'.call.id = id
\* the host reports the failure of the message at the head of the queue
FailStep ==
    pc = "submsg" /\ resp'.call.entry = "host" /\ resp'.result = "DownstreamFailure"
\* the host reports the success of a message that registered no reply
DoneStep ==
    pc = "submsg" /\ resp'.call.entry = "host" /\ resp'.result = Ok
WasExec(op) == resp.call.entry = "execute" /\ resp.call.msg.op = op
IsBankSend(m) == m.msg = "BankSend"

----------------------------------------------------------------------------
(* C1..C10 *)

\* C1: a Withdraw whose caller is not the stored owner fails with Unauthorized,
\* emits no sub-call, and leaves weight, donations, pending-withdrawal and
\* last-updated as they were.
C1_WithdrawByNonOwner ==
    [][ (ExecStep("Withdraw") /\ resp'.call.sender # storage.owner) =>
            /\ resp'.result = "Unauthorized"
            /\ resp'.msgs = <<>>
            /\ queue' = <<>>
            /\ pc' = "idle"
            /\ storage'.weight = storage.weight
            /\ storage'.donations = storage.donations
            /\ storage'.pending = storage.pending
            /\ storage'.last_updated = storage.last_updated ]_vars
C1_Witness ==
    /\ WasExec("Withdraw")
    /\ resp.call.sender # storage.owner
    /\ resp.result = "Unauthorized"
    /\ storage.donations = 2
    /\ storage.last_updated < now

\* C2: a Withdraw by the owner, with no receiver or a valid one, from weight w_old
\* and donations d sets weight to d, donations to 1 and last-updated to the
\* request's time, stages the pending withdrawal for the receiver (the caller when
\* none is given), and emits exactly one sub-call Withdraw(w_old, d - w_old) to the
\* distribution contract, reply-on-success with the withdrawal reply id.
C2_WithdrawByOwner ==
    [][ (/\ ExecStep("Withdraw")
         /\ resp'.call.sender = storage.owner
         /\ resp'.call.msg.receiver # Some(BadAddr)) =>
            LET w_old == storage.weight
                d == storage.donations
                m == resp'.call.msg
                rcv == IF m.receiver = None THEN resp'.call.sender ELSE m.receiver[1]
            IN  /\ resp'.result = Ok
                /\ storage'.weight = d
                /\ storage'.donations = 1
                /\ storage'.last_updated = now'
                /\ storage'.pending = Some([receiver |-> rcv, amount |-> m.amount])
                /\ resp'.msgs = << [to |-> storage.config.distribution_contract,
                                    msg |-> "Withdraw", weight |-> w_old,
                                    diff |-> d - w_old, funds |-> 0,
                                    reply_on |-> "success", id |-> WITHDRAW_REPLY_ID] >>
                /\ queue' = resp'.msgs ]_vars

\* C3: the withdrawal is two-phase.  The Withdraw initiator transfers nothing; a
\* bank transfer is executed only for the message that the withdrawal continuation
\* returned when the host called reply, with the withdrawal reply id, after the
\* Withdraw sub-call of an owner's Withdraw succeeded; that continuation pays the
\* staged receiver and deletes the staged record; a handler deletes the record in
\* no other step (a failed transaction's rollback discards it with every other
\* write, see C4); and a transaction executes at most one transfer.
C3_TwoPhaseWithdrawal ==
    [][ /\ ExecStep("Withdraw") =>
              /\ paid' = 0
              /\ \A i \in 1..Len(resp'.msgs) : ~IsBankSend(resp'.msgs[i])
        /\ paid' # paid /\ paid' # 0 =>
              /\ DoneStep
              /\ IsBankSend(resp'.call.msg)
              /\ resp.call.entry = "reply"
              /\ resp.call.id = WITHDRAW_REPLY_ID
              /\ ~resp.call.direct
              /\ resp.result = Ok
              /\ resp.msgs = <<resp'.call.msg>>
              /\ tx.op = "Withdraw"
              /\ tx.sender = storage.owner
              /\ storage.pending = None
              /\ paid = 0
        /\ (ReplyStep(WITHDRAW_REPLY_ID) /\ resp'.result = Ok) =>
              /\ storage.pending # None
              /\ resp'.msgs = << [to |-> storage.pending[1].receiver, msg |-> "BankSend",
                                  amount |-> storage.pending[1].amount, funds |-> 0,
                                  reply_on |-> "never", id |-> 0] >>
              /\ storage'.pending = None
        /\ (storage.pending # None /\ storage'.pending = None /\ ~FailStep) =>
              /\ pc = "submsg"
              /\ ReplyStep(WITHDRAW_REPLY_ID)
              /\ ~resp'.call.direct
              /\ resp'.result = Ok
              /\ Head(queue).msg = "Withdraw"
              /\ Head(queue).reply_on = "success"
        /\ paid' <= 1 ]_vars
C3_Witness ==
    /\ paid = 1
    /\ pc = "idle"
    /\ tx.op = "Withdraw"
    /\ resp.call.entry = "host"
    /\ resp.call.msg.msg = "BankSend"
    /\ resp.call.msg.to = "bob"
    /\ storage.pending = None
    /\ storage.donations = 1

\* the Withdraw sub-call that an owner's Withdraw registered for a reply fails
WithdrawSubcallFails ==
    FailStep /\ Head(queue).msg = "Withdraw" /\ Head(queue).reply_on = "success"

\* C4 as stated: when the withdrawal sub-call fails, the pending-withdrawal record
\* that the Withdraw initiator staged remains stored, and no funds are transferred.
C4_FailedSubcallKeepsPending ==
    [][ WithdrawSubcallFails =>
            /\ storage'.pending # None
            /\ storage'.pending = storage.pending
            /\ paid' = 0 ]_vars
\* C4 as amended: when the withdrawal sub-call fails the whole transaction is rolled
\* back: the storage is again what it was before the Withdraw, so the record that
\* the initiator staged is discarded with the initiator's other writes and no
\* pending record is stored, the rest of the transaction is dropped, and no funds
\* are transferred.
C4_FailedSubcallRollsBack ==
    [][ /\ (ExecStep("Withdraw") /\ resp'.result = Ok) =>
              (checkpoint' = storage /\ storage'.pending # None)
        /\ (pc = "submsg" /\ pc' = "submsg") => checkpoint' = checkpoint
        /\ WithdrawSubcallFails =>
              /\ storage.pending # None
              /\ storage' = checkpoint
              /\ storage'.pending = None
              /\ queue' = <<>>
              /\ pc' = "idle"
              /\ paid' = 0 ]_vars
C4_Witness ==
    /\ resp.call.entry = "host"
    /\ resp.result = "DownstreamFailure"
    /\ resp.call.msg.msg = "Withdraw"
    /\ resp.call.msg.reply_on = "success"
    /\ tx.op = "Withdraw"
    /\ storage.pending = None
    /\ storage.donations = 2
    /\ storage.last_updated < now

\* C5: the withdrawal continuation invoked while no pending-withdrawal record is
\* stored fails with MissingPendingState, returns no transfer and changes no
\* state; no transaction pays twice.
C5_ReplyWithoutPending ==
    [][ /\ (ReplyStep(WITHDRAW_REPLY_ID) /\ storage.pending = None) =>
              /\ resp'.result = "MissingPendingState"
              /\ resp'.msgs = <<>>
              /\ queue' = <<>>
              /\ storage' = storage
              /\ pc' = "idle"
              /\ paid' = 0
        /\ paid' <= 1 ]_vars
C5_Witness ==
    /\ resp.call.entry = "reply"
    /\ resp.call.id = WITHDRAW_REPLY_ID
    /\ resp.call.direct
    /\ resp.result = "MissingPendingState"
    /\ storage.pending = None
    /\ storage.donations = 1
    /\ storage.weight = 2

\* C6: no Donate executed while the proxy is closed increments the donation
\* counter or emits a distribute call: it is rejected.
C6_NoDonateWhenClosed ==
    [][ (ExecStep("Donate") /\ storage.config.is_closed) =>
            /\ resp'.result # Ok
            /\ resp'.msgs = <<>>
            /\ storage'.donations = storage.donations ]_vars

\* C7: UpdateWeight called when halftime > now - last_updated succeeds, reports
\* performed = no, emits nothing and leaves the storage unchanged, for any caller.
C7_UpdateWeightTooEarly ==
    [][ (ExecStep("UpdateWeight") /\ storage.halftime > now' - storage.last_updated) =>
            /\ resp'.result = Ok
            /\ resp'.attrs.performed = "no"
            /\ resp'.msgs = <<>>
            /\ queue' = <<>>
            /\ pc' = "idle"
            /\ storage' = storage ]_vars
C7_Witness ==
    /\ WasExec("UpdateWeight")
    /\ resp.call.sender # storage.owner
    /\ resp.result = Ok
    /\ resp.attrs.performed = "no"
    /\ storage.halftime > now - storage.last_updated
    /\ storage.weight = 10

\* C8: UpdateWeight called by anyone when now - last_updated >= halftime reports
\* performed = yes, emits exactly one Withdraw(w, -floor(w/2)) to the distribution
\* contract with no reply registered, and stores weight = w - floor(w/2), w being
\* the weight before the call.
C8_UpdateWeightPerformed ==
    [][ (ExecStep("UpdateWeight") /\ now' - storage.last_updated >= storage.halftime) =>
            LET w == storage.weight
            IN  /\ resp'.result = Ok
                /\ resp'.attrs.performed = "yes"
                /\ resp'.msgs = << [to |-> storage.config.distribution_contract,
                                    msg |-> "Withdraw", weight |-> w,
                                    diff |-> -(w \div 2), funds |-> 0,
                                    reply_on |-> "never", id |-> 0] >>
                /\ storage'.weight = w - (w \div 2) ]_vars

\* C9: a Donate carrying one coin of amount a > 0 in the configured denomination
\* emits exactly one Distribute message to the distribution contract with funds
\* a - floor(a * direct_part), registers no reply, and adds exactly 1 to the
\* donation counter whatever a is, changing nothing else; the counter has grown
\* by 1 when the transaction commits.
C9_Donate ==
    [][ /\ (/\ ExecStep("Donate")
            /\ Len(resp'.call.msg.funds) = 1
            /\ resp'.call.msg.funds[1].denom = storage.config.denom
            /\ resp'.call.msg.funds[1].amount > 0) =>
              LET a == resp'.call.msg.funds[1].amount
                  pct == storage.config.direct_part
              IN  /\ resp'.result = Ok
                  /\ resp'.msgs = << [to |-> storage.config.distribution_contract,
                                      msg |-> "Distribute",
                                      funds |-> a - ((a * pct) \div 100),
                                      reply_on |-> "never", id |-> 0] >>
                  /\ queue' = resp'.msgs
                  /\ storage' = [storage EXCEPT !.donations = storage.donations + 1]
        /\ (DoneStep /\ resp'.call.msg.msg = "Distribute") =>
              /\ pc' = "idle"
              /\ storage' = storage
              /\ storage'.donations = checkpoint.donations + 1 ]_vars
C9_Witness ==
    /\ pc = "idle"
    /\ tx.op = "Donate"
    /\ resp.call.entry = "host"
    /\ resp.result = Ok
    /\ resp.call.msg.msg = "Distribute"
    /\ resp.call.msg.funds = 700
    /\ storage.config.direct_part = 30
    /\ storage.donations = 2

\* C10: the closed flag is false at instantiation, never goes from true back to
\* false, and every Close by the owner succeeds, leaves it true, emits nothing and
\* changes nothing else.
C10_CloseOneWay ==
    [][ /\ (pc = "new" /\ pc' = "idle") => ~storage'.config.is_closed
        /\ (pc # "new" /\ storage.config.is_closed) => storage'.config.is_closed
        /\ (ExecStep("Close") /\ resp'.call.sender = storage.owner) =>
              /\ resp'.result = Ok
              /\ resp'.msgs = <<>>
              /\ queue' = <<>>
              /\ pc' = "idle"
              /\ storage' = [storage EXCEPT !.config.is_closed = TRUE] ]_vars
C10_Witness ==
    /\ WasExec("Close")
    /\ resp.call.sender = storage.owner
    /\ resp.result = Ok
    /\ storage.config.is_closed
    /\ storage.donations = 2

----------------------------------------------------------------------------
(* C11..C20 *)

\* C11: a Close or a ProposeMember whose caller is not the stored owner fails with
\* Unauthorized, emits nothing and leaves the whole storage (the closed flag
\* included) unchanged; no step after instantiation changes the stored owner.
C11_GuardedByOwner ==
    [][ /\ ((ExecStep("Close") \/ ExecStep("ProposeMember"))
            /\ resp'.call.sender # storage.owner) =>
              /\ resp'.result = "Unauthorized"
              /\ resp'.msgs = <<>>
              /\ queue' = <<>>
              /\ pc' = "idle"
              /\ storage' = storage
        /\ pc \in {"idle", "submsg"} => storage'.owner = storage.owner ]_vars
C11_Witness ==
    /\ WasExec("ProposeMember")
    /\ resp.call.sender # storage.owner
    /\ resp.result = "Unauthorized"
    /\ ~storage.config.is_closed
    /\ storage.donations = 2

\* C12: a reply whose id is neither the withdrawal nor the proposal reply id fails
\* with UnrecognizedReplyId carrying that id and changes no state; the two ids are
\* distinct, a reply with the withdrawal id is handled by the withdrawal
\* continuation only and one with the proposal id by the proposal continuation only.
C12_ReplyIds ==
    [][ /\ WITHDRAW_REPLY_ID # PROPOSE_MEMBER_REPLY_ID
        /\ (pc \in {"idle", "submsg"} /\ resp'.call.entry = "reply") =>
              IF resp'.call.id = WITHDRAW_REPLY_ID
              THEN \/ resp'.result = "MissingPendingState"
                   \/ resp'.result = Ok /\ resp'.attrs.action = "withdraw reply"
              ELSE IF resp'.call.id = PROPOSE_MEMBER_REPLY_ID
              THEN /\ \/ resp'.result = "DownstreamFailure"
                      \/ resp'.result = Ok /\ resp'.attrs.action = "propose member reply"
                   /\ resp'.msgs = <<>>
                   /\ storage'.pending = storage.pending
              ELSE /\ resp'.result = "UnrecognizedReplyId"
                   /\ resp'.attrs.id = resp'.call.id
                   /\ resp'.msgs = <<>>
                   /\ queue' = <<>>
                   /\ storage' = storage
                   /\ pc' = "idle" ]_vars
C12_Witness ==
    /\ resp.call.entry = "reply"
    /\ resp.call.id \notin {WITHDRAW_REPLY_ID, PROPOSE_MEMBER_REPLY_ID}
    /\ resp.result = "UnrecognizedReplyId"
    /\ resp.attrs.id = 3
    /\ storage.donations = 2
    /\ storage.config.is_closed

\* C13: an instantiation with direct_part outside [0, 1] is rejected with the
\* invalid-direct-part error and stores nothing, after which nothing can be
\* executed; in every state of an instantiated contract 0 <= direct_part <= 1, so
\* every Donate that succeeds distributes between 0 and the amount paid.
C13_DirectPartInRange ==
    [][ /\ (pc = "new" /\ resp'.call.entry = "instantiate"
            /\ ~(0 <= resp'.call.msg.direct_part /\ resp'.call.msg.direct_part <= 100)) =>
              /\ resp'.result = "InalidDirectPart"
              /\ pc' = "rejected"
              /\ storage' = BlankStorage
        /\ pc = "rejected" => (pc' = "rejected" /\ storage' = storage)
        /\ pc' \in {"idle", "submsg"} =>
              (0 <= storage'.config.direct_part /\ storage'.config.direct_part <= 100)
        /\ (ExecStep("Donate") /\ resp'.result = Ok) =>
              LET a == resp'.call.msg.funds[1].amount
                  direct == (a * storage.config.direct_part) \div 100
              IN  /\ direct <= a
                  /\ resp'.msgs[1].funds = a - direct
                  /\ 0 <= resp'.msgs[1].funds
                  /\ resp'.msgs[1].funds <= a ]_vars
C13_Witness ==
    /\ pc = "rejected"
    /\ resp.call.entry = "instantiate"
    /\ resp.call.msg.direct_part = 150
    /\ resp.call.msg.owner = "alice"
    /\ resp.result = "InalidDirectPart"
    /\ storage = BlankStorage

\* C14: a Withdraw by the owner with a receiver that fails address validation
\* fails, emits no sub-call and leaves the storage as it was before the call,
\* although the handler had by then written weight, donations and last-updated.
C14_BadReceiverRollsBack ==
    [][ (/\ ExecStep("Withdraw")
         /\ resp'.call.sender = storage.owner
         /\ resp'.call.msg.receiver = Some(BadAddr)) =>
            LET r == withdraw(storage, resp'.call.sender, now',
                              resp'.call.msg.receiver, resp'.call.msg.amount)
            IN  /\ resp'.result \in {"InvalidAddress", Panic}
                /\ resp'.result = "InvalidAddress" =>
                      r.storage = [storage EXCEPT !.weight = storage.donations,
                                                  !.donations = 1,
                                                  !.last_updated = now']
                /\ resp'.msgs = <<>>
                /\ queue' = <<>>
                /\ pc' = "idle"
                /\ storage' = storage ]_vars
C14_Witness ==
    /\ WasExec("Withdraw")
    /\ resp.call.sender = storage.owner
    /\ resp.call.msg.receiver = Some(BadAddr)
    /\ resp.result = "InvalidAddress"
    /\ storage.weight = 10
    /\ storage.donations = 2
    /\ storage.last_updated < now
    /\ storage.pending = None

\* a withdrawal is awaiting its reply: the host has yet to dispatch the Withdraw
\* sub-call that an owner's Withdraw registered for a reply
AwaitingWithdrawReply(q) ==
    { i \in 1..Len(q) : q[i].msg = "Withdraw" /\ q[i].reply_on = "success" }

\* C15: the pending-withdrawal record is stored exactly while a withdrawal awaits
\* its reply: it is absent after instantiation; only an owner's Withdraw creates
\* it; only the withdrawal continuation deletes it (or the rollback of the failed
\* withdrawal discards it); Donate, Close, ProposeMember and UpdateWeight neither
\* create nor delete it; and at most one withdrawal is outstanding.
C15_PendingWhileAwaiting ==
    [][ /\ (pc = "new" /\ pc' = "idle") => storage'.pending = None
        /\ (storage'.pending # None) <=>
              (pc' = "submsg" /\ AwaitingWithdrawReply(queue') = {1})
        /\ Cardinality(AwaitingWithdrawReply(queue')) <= 1
        /\ (storage.pending = None /\ storage'.pending # None) =>
              /\ ExecStep("Withdraw")
              /\ resp'.call.sender = storage.owner
              /\ resp'.result = Ok
        /\ (storage.pending # None /\ storage'.pending = None) =>
              \/ /\ ReplyStep(WITHDRAW_REPLY_ID)
                 /\ ~resp'.call.direct
                 /\ resp'.result = Ok
              \/ WithdrawSubcallFails
        /\ \A op \in {"Donate", "Close", "ProposeMember", "UpdateWeight"} :
              ExecStep(op) => storage'.pending = storage.pending ]_vars
C15_Witness ==
    /\ pc = "submsg"
    /\ storage.pending = Some([receiver |-> "bob", amount |-> Some(1)])
    /\ AwaitingWithdrawReply(queue) = {1}
    /\ tx.op = "Withdraw"
    /\ checkpoint.pending = None
    /\ checkpoint.donations = 2

\* C16: in the performed path of UpdateWeight, for every weight of the unsigned
\* width, the diff sent is <= 0 and the weight stored is weight - floor(weight/2),
\* which is not negative and not greater than the weight before.
C16_HalvingAtFullWidth ==
    [][ (/\ ExecStep("UpdateWeight")
         /\ resp'.result = Ok
         /\ resp'.attrs.performed = "yes") =>
            LET w == storage.weight
            IN  /\ resp'.msgs[1].diff <= 0
                /\ storage'.weight = w - (w \div 2)
                /\ 0 <= storage'.weight
                /\ storage'.weight <= w ]_vars

\* C17: last-updated never decreases from one committed storage to the next, and
\* is never later than the latest block time, so UpdateWeight never computes a
\* negative elapsed time; it is set to the request's time at instantiation and by
\* an owner's Withdraw, and no other handler or continuation writes it (within a
\* transaction it changes otherwise only when the rollback of a failed Withdraw
\* restores it).
C17_LastUpdatedMonotone ==
    [][ /\ now' >= now
        /\ (pc = "new" /\ pc' = "idle") => storage'.last_updated = now'
        /\ pc \in {"idle", "submsg"} =>
              /\ checkpoint'.last_updated >= checkpoint.last_updated
              /\ pc' = "idle" => checkpoint' = storage'
              /\ storage'.last_updated <= now'
              /\ storage'.last_updated # storage.last_updated =>
                    \/ /\ ExecStep("Withdraw")
                       /\ resp'.call.sender = storage.owner
                       /\ resp'.result = Ok
                       /\ storage'.last_updated = now'
                    \/ /\ FailStep
                       /\ tx.op = "Withdraw"
                       /\ storage'.last_updated = checkpoint.last_updated
        /\ ExecStep("UpdateWeight") => now' - storage.last_updated >= 0 ]_vars
C17_Witness ==
    /\ pc = "idle"
    /\ tx.op = "Withdraw"
    /\ paid = 1
    /\ now > 0
    /\ storage.last_updated = now
    /\ resp.call.entry = "host"
    /\ resp.result = Ok

\* C18: a ProposeMember by the owner changes nothing in the storage and emits
\* exactly one sub-call ProposeMember(addr) to the membership contract,
\* reply-on-success with the proposal reply id; the proposal continuation changes
\* nothing in the storage either, emits nothing, and returns an error when the
\* result it is given is a failure.
C18_ProposeMember ==
    [][ /\ (ExecStep("ProposeMember") /\ resp'.call.sender = storage.owner) =>
              /\ resp'.result = Ok
              /\ storage' = storage
              /\ resp'.msgs = << [to |-> storage.config.membership_contract,
                                  msg |-> "ProposeMember", addr |-> resp'.call.msg.addr,
                                  funds |-> 0, reply_on |-> "success",
                                  id |-> PROPOSE_MEMBER_REPLY_ID] >>
              /\ queue' = resp'.msgs
        /\ ReplyStep(PROPOSE_MEMBER_REPLY_ID) =>
              /\ storage' = storage
              /\ resp'.msgs = <<>>
              /\ resp'.call.result = Ok => resp'.result = Ok
              /\ resp'.call.result # Ok => resp'.result \notin {Ok, Panic}
        /\ (pc = "submsg" /\ Head(queue).msg = "ProposeMember" /\ resp'.call.entry = "reply") =>
              /\ resp'.call.id = PROPOSE_MEMBER_REPLY_ID
              /\ resp'.result = Ok
              /\ pc' = "idle" ]_vars
C18_Witness ==
    /\ pc = "idle"
    /\ tx.op = "ProposeMember"
    /\ resp.call.entry = "reply"
    /\ resp.call.id = PROPOSE_MEMBER_REPLY_ID
    /\ ~resp.call.direct
    /\ resp.result = Ok
    /\ storage.donations = 2
    /\ storage.pending = None

\* C19: every Withdraw(weight, diff) message that a handler emits carries the
\* weight stored before the call, and weight + diff is the weight stored after it.
C19_DiffTracksWeight ==
    [][ (pc = "idle" /\ resp'.call.entry = "execute" /\ resp'.result = Ok) =>
            \A i \in 1..Len(resp'.msgs) :
                resp'.msgs[i].msg = "Withdraw" =>
                    /\ resp'.msgs[i].weight = storage.weight
                    /\ resp'.msgs[i].weight + resp'.msgs[i].diff = storage'.weight ]_vars

\* C20: a performed UpdateWeight does not write last-updated, so once
\* now - last_updated >= halftime every UpdateWeight is performed until an owner's
\* Withdraw: each emits one forced-withdrawal message and replaces the weight w by
\* w - floor(w/2), which is smaller than w when w > 1 and never below 1 when
\* w >= 1, so repeated calls bring any weight >= 1 to exactly 1.
C20_RepeatedRebalance ==
    [][ (ExecStep("UpdateWeight") /\ now' - storage.last_updated >= storage.halftime) =>
            LET w == storage.weight
            IN  /\ resp'.result = Ok
                /\ resp'.attrs.performed = "yes"
                /\ Len(resp'.msgs) = 1
                /\ storage'.last_updated = storage.last_updated
                /\ storage'.halftime = storage.halftime
                /\ now' - storage'.last_updated >= storage'.halftime
                /\ storage'.weight = w - (w \div 2)
                /\ w > 1 => storage'.weight < w
                /\ w >= 1 => storage'.weight >= 1 ]_vars

====
